---- MODULE Spec2Model ----
(***************************************************************************)
(* Cart-to-order checkout of the FairFound e-commerce backend.             *)
(*                                                                         *)
(* Spec      the consolidated app (ecommerce/views.py, CartViewSet): a set *)
(*           of request slots runs the me/ actions concurrently against a  *)
(*           shared store with READ COMMITTED transactions and row locks   *)
(*           (select_for_update).  A transaction's writes become visible   *)
(*           in the step that commits it.                                  *)
(* SpecSeq   the same handlers, one request at a time.                     *)
(* SpecCarts the per-entity carts app (carts/views.py), one request at a   *)
(*           time.                                                         *)
(*                                                                         *)
(* Money is an integer number of thousandths of the currency unit, so that *)
(* a DecimalField(decimal_places=2) column holds multiples of 10 and       *)
(* storing a value is a rounding that the model performs.                  *)
(***************************************************************************)
EXTENDS Integers, Sequences, FiniteSets, TLC

\* ------------------------------------------------------------------ bounds
MaxOps == 2        \* requests issued in one behaviour
MaxQty == 2        \* largest qty a payload carries
MaxStock == 2      \* on-hand stock every variant starts with

Customers == {"alice", "bob"}
Variants == {1, 2}                 \* a variant is named by the rank of its sku
Slots == <<"r1", "r2">>            \* concurrently served requests
Requests == {Slots[i] : i \in DOMAIN Slots}
NoReq == "none"
QtyPayloads == 0 .. MaxQty

VARIABLES
    carts,        \* Cart rows: sequence of [customer, status]; id = index
    cartItems,    \* CartItem rows: set of [id, cart, variant, qty, price_at_add]
    nextItemId,   \* next fresh CartItem id
    stock,        \* Variant.stock
    price,        \* Variant.price
    sale_price,   \* Variant.sale_price: <<>> is NULL, <<p>> a value
    promotions,   \* Promotion rows by code: [active, usage_limit, used_count, rule]
    rules,        \* PricingRule rows by id: [type, value, active, starts_at, ends_at]
    orders,       \* Order rows: sequence; id = index.  Field cart is history
                  \* (the cart the order was made from), not a column
    orderItems,   \* OrderItem rows: sequence of [order, variant, qty, unit_price, line_total]
    movements,    \* InventoryMovement rows: sequence of [variant, change, reason, order]
    lock,         \* row lock on each Variant: the request holding it, or NoReq
    pc,           \* where each request is in its handler
    req,          \* each request's payload and local variables
    last,         \* the response sent last: [op, customer, cart, result, detail]
    started       \* number of requests issued so far

vars == <<carts, cartItems, nextItemId, stock, price, sale_price, promotions,
          rules, orders, orderItems, movements, lock, pc, req, last, started>>

db == <<carts, cartItems, nextItemId, stock, price, sale_price, promotions,
        rules, orders, orderItems, movements>>

\* ------------------------------------------------------------------ helpers
Min(S) == CHOOSE x \in S : \A y \in S : x <= y
Max(S) == CHOOSE x \in S : \A y \in S : x >= y

\* DecimalField(max_digits=10, decimal_places=2): a stored amount is rounded
\* to two decimal places, half to even (django.db.backends.utils.format_number)
Quantize2(x) ==
    LET q == x \div 10
        r == x % 10
    IN  IF r < 5 THEN 10 * q
        ELSE IF r > 5 THEN 10 * (q + 1)
        ELSE IF q % 2 = 0 THEN 10 * q ELSE 10 * (q + 1)

\* Variant.effective_price
effective_price(v) ==
    IF sale_price[v] # <<>> /\ sale_price[v][1] # 0 THEN sale_price[v][1] ELSE price[v]

\* CartItem.line_total
line_total(item) == item.price_at_add * item.qty

ItemsOf(cart) == {it \in cartItems : it.cart = cart}

\* a queryset of CartItem listed in Meta.ordering = ['id']
RECURSIVE ItemsList(_)
ItemsList(S) ==
    IF S = {} THEN <<>>
    ELSE LET m == CHOOSE it \in S : \A o \in S : it.id <= o.id
         IN  <<m>> \o ItemsList(S \ {m})

RECURSIVE SumLineTotals(_)
SumLineTotals(S) ==
    IF S = {} THEN 0
    ELSE LET m == CHOOSE it \in S : TRUE
         IN  line_total(m) + SumLineTotals(S \ {m})

RECURSIVE SumQty(_)
SumQty(S) ==
    IF S = {} THEN 0
    ELSE LET m == CHOOSE it \in S : TRUE
         IN  m.qty + SumQty(S \ {m})

QtyOfVariant(S, v) == SumQty({it \in S : it.variant = v})

\* ------------------------------------------------------------------ Init
IdleReq ==
    [op |-> "none", customer |-> "alice", variant |-> 1, qty |-> 0, item |-> 0,
     method |-> "none", body_ok |-> TRUE, cart |-> 0, items |-> {}]

NoResponse ==
    [op |-> "none", customer |-> "alice", cart |-> 0, result |-> 0, detail |-> "none"]

\* The store is either empty, or holds what earlier add_item requests left:
\* an open cart for each customer, alice's with one unit of variant 1, bob's
\* with all the stock of variant 1 and one unit of variant 2.
SeededCarts == <<[customer |-> "alice", status |-> "open"],
                 [customer |-> "bob", status |-> "open"]>>

SeededItems ==
    {[id |-> 1, cart |-> 1, variant |-> 1, qty |-> 1, price_at_add |-> 1000],
     [id |-> 2, cart |-> 2, variant |-> 1, qty |-> MaxStock, price_at_add |-> 1000],
     [id |-> 3, cart |-> 2, variant |-> 2, qty |-> 1, price_at_add |-> 2000]}

\* no promotion and no pricing rule has been created yet
NoPromotions == [code \in {} |-> 0]
NoRules == [id \in {} |-> 0]

\* every table but the promotions and the pricing rules
InitStore ==
    /\ \/ carts = <<>> /\ cartItems = {} /\ nextItemId = 1
       \/ carts = SeededCarts /\ cartItems = SeededItems /\ nextItemId = 4
    /\ stock = [v \in Variants |-> MaxStock]
    /\ price = [v \in Variants |-> 1000 * v]
    /\ sale_price = [v \in Variants |-> <<>>]
    /\ orders = <<>>
    /\ orderItems = <<>>
    /\ movements = <<>>
    /\ lock = [v \in Variants |-> NoReq]
    /\ pc = [r \in Requests |-> "idle"]
    /\ req = [r \in Requests |-> IdleReq]
    /\ last = NoResponse
    /\ started = 0

Init ==
    /\ InitStore
    /\ promotions = NoPromotions
    /\ rules = NoRules

\* ------------------------------------------------------------------ requests
\* A request slot takes a new request when it serves none.
Free(r) == pc[r] = "idle"

Issue(r, rec) ==
    /\ Free(r)
    /\ \A i \in DOMAIN Slots : Slots[i] = r => \A j \in 1 .. (i - 1) : ~Free(Slots[j])
    /\ started < MaxOps
    /\ started' = started + 1
    /\ pc' = [pc EXCEPT ![r] = "goc"]
    /\ req' = [req EXCEPT ![r] = rec]
    /\ UNCHANGED <<db, lock, last>>

\* GET carts/me/
MeRequest(r) ==
    \E c \in Customers :
        Issue(r, [IdleReq EXCEPT !.op = "me", !.customer = c])

\* POST carts/me/items/ {variant_id, qty}
AddItemRequest(r) ==
    \E c \in Customers, v \in Variants, q \in QtyPayloads :
        Issue(r, [IdleReq EXCEPT !.op = "add_item", !.customer = c,
                                 !.variant = v, !.qty = q])

\* PATCH or DELETE carts/me/items/<item_id>/ {qty}
UpdateItemRequest(r) ==
    \E c \in Customers, i \in 1 .. (nextItemId - 1), q \in QtyPayloads,
       m \in {"PATCH", "DELETE"} :
        /\ m = "DELETE" => q = 0
        /\ Issue(r, [IdleReq EXCEPT !.op = "update_item", !.customer = c,
                                    !.item = i, !.qty = q, !.method = m])

\* POST carts/me/checkout/ {shipping_address, ...}; body_ok: the body passes
\* OrderCreateSerializer
CheckoutRequest(r) ==
    \E c \in Customers, ok \in BOOLEAN :
        Issue(r, [IdleReq EXCEPT !.op = "checkout", !.customer = c, !.body_ok = ok])

\* ------------------------------------------------------------------ _get_or_create_cart
OpenCarts(c) ==
    {i \in DOMAIN carts : carts[i].customer = c /\ carts[i].status = "open"}

\* mutant: the status filter is forgotten
FirstCartAnyStatus(c) ==
    LET mine == {i \in DOMAIN carts : carts[i].customer = c}
    IN  IF mine = {} THEN 0 ELSE Max(mine)

\* .filter(customer, status=OPEN).select_for_update().first(), in
\* Cart.Meta.ordering = ['-updated_at']; 0 when there is none
FirstOpenCart(c) == IF OpenCarts(c) = {} THEN 0 ELSE Max(OpenCarts(c))

\* the response; the handler's locals are gone with it
\* result is the HTTP status, detail the branch of the handler that sent it
Respond(r, cart, code, detail) ==
    /\ pc' = [pc EXCEPT ![r] = "idle"]
    /\ req' = [req EXCEPT ![r] = IdleReq]
    /\ last' = [op |-> req[r].op, customer |-> req[r].customer, cart |-> cart,
                result |-> code, detail |-> detail]

Finish(r, code, detail) == Respond(r, req[r].cart, code, detail)

\* what the handler does with the cart before it touches the store again:
\* the serializer's validation of the payload
AfterCart(rq) ==
    CASE rq.op = "me" -> [pc |-> "done", result |-> 200, detail |-> "cart"]
      [] rq.op = "add_item" ->
            IF rq.qty < 1 THEN [pc |-> "done", result |-> 400, detail |-> "invalid"]
            ELSE [pc |-> "add", result |-> 0, detail |-> "none"]
      [] rq.op = "update_item" -> [pc |-> "upd", result |-> 0, detail |-> "none"]
      [] rq.op = "checkout" -> [pc |-> "co_exists", result |-> 0, detail |-> "none"]

WithCart(r, cart) ==
    LET nxt == AfterCart(req[r])
    IN  IF nxt.pc = "done"
        THEN Respond(r, cart, nxt.result, nxt.detail)
        ELSE /\ pc' = [pc EXCEPT ![r] = nxt.pc]
             /\ req' = [req EXCEPT ![r].cart = cart]
             /\ UNCHANGED last

\* the SELECT ... FOR UPDATE of the open cart; the atomic block ends (and the
\* row lock with it) as soon as a cart was found
GocSelect(r) ==
    /\ pc[r] = "goc"
    /\ LET cart == FirstOpenCart(req[r].customer)
       IN  IF cart # 0
           THEN WithCart(r, cart)
           ELSE /\ pc' = [pc EXCEPT ![r] = "goc_create"]
                /\ UNCHANGED <<req, last>>
    /\ UNCHANGED <<db, lock, started>>

\* Cart.objects.create(customer, status=OPEN) when the select found no row
GocCreate(r) ==
    /\ pc[r] = "goc_create"
    /\ carts' = Append(carts, [customer |-> req[r].customer, status |-> "open"])
    /\ WithCart(r, Len(carts) + 1)
    /\ UNCHANGED <<cartItems, nextItemId, stock, price, sale_price, promotions,
                   rules, orders, orderItems, movements, lock, started>>

\* ------------------------------------------------------------------ add_item
\* the rows CartItem.objects.filter(cart=cart, variant=variant) matches
ExistingItems(cart, v) == {it \in cartItems : it.cart = cart /\ it.variant = v}

\* mutant: the requested qty replaces the item's qty
TotalQtyOverwrite(existing, qty) == qty

\* mutant: the total is one unit short, so stock + 1 passes the check
TotalQtyShort(existing, qty) ==
    qty + (IF existing = {} THEN 0 ELSE (CHOOSE it \in existing : \A o \in existing : it.id <= o.id).qty) - 1

\* total_qty = qty + (existing_item.qty if existing_item else 0)
TotalQty(existing, qty) ==
    qty + (IF existing = {} THEN 0 ELSE (CHOOSE it \in existing : \A o \in existing : it.id <= o.id).qty)

\* the transaction of add_item: lock the variant row, merge or create the
\* item, commit
AddItemTxn(r) ==
    /\ pc[r] = "add"
    /\ LET v == req[r].variant
           existing == ExistingItems(req[r].cart, v)
           total == TotalQty(existing, req[r].qty)
       IN  /\ lock[v] = NoReq
           /\ IF stock[v] < total
              THEN /\ Finish(r, 400, "stock")
                   /\ UNCHANGED <<cartItems, nextItemId>>
              ELSE IF existing # {}
              THEN LET e == CHOOSE it \in existing : \A o \in existing : it.id <= o.id
                   IN  /\ cartItems' = (cartItems \ {e}) \union {[e EXCEPT !.qty = total]}
                       /\ UNCHANGED nextItemId
                       /\ Finish(r, 201, "merged")
              ELSE /\ cartItems' = cartItems \union
                        {[id |-> nextItemId, cart |-> req[r].cart, variant |-> v,
                          qty |-> req[r].qty, price_at_add |-> effective_price(v)]}
                   /\ nextItemId' = nextItemId + 1
                   /\ Finish(r, 201, "created")
    /\ UNCHANGED <<carts, stock, price, sale_price, promotions, rules, orders,
                   orderItems, movements, lock, started>>

\* ------------------------------------------------------------------ update_item
\* get_object_or_404(CartItem, id=item_id, cart=cart), then DELETE or PATCH
\* mutant: the item is looked up by its id alone
FoundItemInAnyCart(r) == {it \in cartItems : it.id = req[r].item}

\* get_object_or_404(CartItem, id=item_id, cart=cart)
FoundItem(r) == {it \in cartItems : it.id = req[r].item /\ it.cart = req[r].cart}

UpdateItemApply(r) ==
    /\ pc[r] = "upd"
    /\ LET found == FoundItem(r)
       IN  IF found = {}
           THEN Finish(r, 404, "item") /\ UNCHANGED cartItems
           ELSE LET it == CHOOSE x \in found : TRUE
                IN  IF req[r].method = "DELETE"
                    THEN /\ cartItems' = cartItems \ {it}
                         /\ Finish(r, 204, "deleted")
                    ELSE IF req[r].qty < 1
                    THEN Finish(r, 400, "invalid") /\ UNCHANGED cartItems
                    ELSE IF stock[it.variant] < req[r].qty
                    THEN Finish(r, 400, "stock") /\ UNCHANGED cartItems
                    ELSE /\ cartItems' = (cartItems \ {it}) \union
                                {[it EXCEPT !.qty = req[r].qty]}
                         /\ Finish(r, 200, "updated")
    /\ UNCHANGED <<carts, nextItemId, stock, price, sale_price, promotions,
                   rules, orders, orderItems, movements, lock, started>>

\* ------------------------------------------------------------------ checkout
\* saving an Order row: every money column is a DecimalField(decimal_places=2)
StoredOrder(o) ==
    [o EXCEPT !.subtotal = Quantize2(o.subtotal),
              !.discount_total = Quantize2(o.discount_total),
              !.shipping_total = Quantize2(o.shipping_total),
              !.tax_total = Quantize2(o.tax_total),
              !.grand_total = Quantize2(o.grand_total)]

\* if not cart.items.exists(): 400; then OrderCreateSerializer.is_valid
CheckoutExists(r) ==
    /\ pc[r] = "co_exists"
    /\ IF ItemsOf(req[r].cart) = {}
       THEN Finish(r, 400, "empty")
       ELSE IF ~req[r].body_ok
       THEN Finish(r, 400, "invalid")
       ELSE /\ pc' = [pc EXCEPT ![r] = "co_read"]
            /\ UNCHANGED <<req, last>>
    /\ UNCHANGED <<db, lock, started>>

\* cart_items = list(cart.items.select_related('variant').all()), the first
\* statement of the transaction
CheckoutRead(r) ==
    /\ pc[r] = "co_read"
    /\ LET items == ItemsOf(req[r].cart)
       IN  /\ req' = [req EXCEPT ![r].items = items]
           /\ pc' = [pc EXCEPT ![r] = IF items = {} THEN "co_txn" ELSE "co_lock"]
    /\ UNCHANGED <<db, lock, last, started>>

VariantsOf(items) == {it.variant : it \in items}
HeldBy(r) == {v \in Variants : lock[v] = r}

\* mutant: the rows are locked in the order of variant_ids, which is the order
\* of the cart's items (CartItem.Meta.ordering = ['id'])
NextToLockInCartOrder(items, held) ==
    LET rest == {it \in items : it.variant \notin held}
    IN  (CHOOSE it \in rest : \A o \in rest : it.id <= o.id).variant

\* Variant.objects.select_for_update().filter(id__in=variant_ids) locks the
\* rows in Variant.Meta.ordering = ['sku'], whatever the order of variant_ids
NextToLock(items, held) == Min(VariantsOf(items) \ held)

CheckoutLock(r) ==
    /\ pc[r] = "co_lock"
    /\ LET needed == VariantsOf(req[r].items)
           v == NextToLock(req[r].items, HeldBy(r))
       IN  /\ lock[v] = NoReq
           /\ lock' = [lock EXCEPT ![v] = r]
           /\ pc' = [pc EXCEPT ![r] =
                        IF needed \ HeldBy(r) = {v} THEN "co_txn" ELSE "co_lock"]
    /\ UNCHANGED <<db, req, last, started>>

\* mutant: the comparison is off by one
InsufficientStockOffByOne(items) == \E it \in items : stock[it.variant] + 1 < it.qty

\* mutant: the checkout is refused only when every item is short
InsufficientStockAll(items) == \A it \in items : stock[it.variant] < it.qty

\* for cart_item in cart_items: if variant.stock < cart_item.qty: return 400
InsufficientStock(items) == \E it \in items : stock[it.variant] < it.qty

\* Order.objects.create(...): discount, shipping and tax are Decimal('0.00')
NewOrder(cart, items) ==
    LET subtotal == SumLineTotals(items)
    IN  StoredOrder(
          [customer |-> carts[cart].customer, status |-> "pending",
           subtotal |-> subtotal, discount_total |-> 0, shipping_total |-> 0,
           tax_total |-> 0, grand_total |-> subtotal - 0 + 0 + 0, cart |-> cart])

\* mutant: the order item takes the variant's price at checkout
NewOrderItemsAtCatalogPrice(oid, items) ==
    LET l == ItemsList(items)
    IN  [i \in 1 .. Len(l) |->
            [order |-> oid, variant |-> l[i].variant, qty |-> l[i].qty,
             unit_price |-> effective_price(l[i].variant),
             line_total |-> Quantize2(effective_price(l[i].variant) * l[i].qty)]]

\* OrderItem.objects.create(order, variant, qty, unit_price, line_total), one
\* for each cart item
NewOrderItems(oid, items) ==
    LET l == ItemsList(items)
    IN  [i \in 1 .. Len(l) |->
            [order |-> oid, variant |-> l[i].variant, qty |-> l[i].qty,
             unit_price |-> l[i].price_at_add, line_total |-> Quantize2(line_total(l[i]))]]

\* variant.stock -= cart_item.qty; variant.save(update_fields=['stock'])
StockAfterSale(items) == [v \in Variants |-> stock[v] - QtyOfVariant(items, v)]

\* mutant: the movement records +qty
SaleMovementsPositive(oid, items) ==
    LET l == ItemsList(items)
    IN  [i \in 1 .. Len(l) |->
            [variant |-> l[i].variant, change |-> l[i].qty, reason |-> "sale",
             order |-> oid]]

\* InventoryMovement.objects.create(variant, change=-qty, reason='sale', ...)
SaleMovements(oid, items) ==
    LET l == ItemsList(items)
    IN  [i \in 1 .. Len(l) |->
            [variant |-> l[i].variant, change |-> 0 - l[i].qty, reason |-> "sale",
             order |-> oid]]

\* mutant: the cart is not converted
CartsLeftOpen(cart) == carts

\* cart.status = CONVERTED; cart.save(update_fields=['status'])
ConvertedCarts(cart) == [carts EXCEPT ![cart].status = "converted"]

Released(r) == [v \in Variants |-> IF lock[v] = r THEN NoReq ELSE lock[v]]

\* the rest of the transaction, under the variant locks: verify the stock,
\* write the order, its items, the stock and the movements, convert the cart,
\* commit.  A 400 returned inside the atomic block commits nothing written.
CheckoutCommit(r) ==
    /\ pc[r] = "co_txn"
    /\ LET items == req[r].items
           cart == req[r].cart
           oid == Len(orders) + 1
       IN  IF InsufficientStock(items)
           THEN /\ Finish(r, 400, "stock")
                /\ UNCHANGED <<carts, stock, orders, orderItems, movements>>
           ELSE /\ orders' = Append(orders, NewOrder(cart, items))
                /\ orderItems' = orderItems \o NewOrderItems(oid, items)
                /\ stock' = StockAfterSale(items)
                /\ movements' = movements \o SaleMovements(oid, items)
                /\ carts' = ConvertedCarts(cart)
                /\ Finish(r, 201, "order")
    /\ lock' = Released(r)
    /\ UNCHANGED <<cartItems, nextItemId, price, sale_price, promotions, rules,
                   started>>

\* ------------------------------------------------------------------ specifications
Step(r) ==
    \/ GocSelect(r)
    \/ GocCreate(r)
    \/ AddItemTxn(r)
    \/ UpdateItemApply(r)
    \/ CheckoutExists(r)
    \/ CheckoutRead(r)
    \/ CheckoutLock(r)
    \/ CheckoutCommit(r)

Arrive(r) ==
    \/ MeRequest(r)
    \/ AddItemRequest(r)
    \/ UpdateItemRequest(r)
    \/ CheckoutRequest(r)

Next == \E r \in Requests : Arrive(r) \/ Step(r)

Spec == Init /\ [][Next]_vars

\* one request at a time: a request arrives only when none is being served
Quiet == \A r \in Requests : Free(r)

NextSeq == \E r \in Requests : (Quiet /\ Arrive(r)) \/ Step(r)

SpecSeq == Init /\ [][NextSeq]_vars

\* ------------------------------------------------------------------ carts app
\* The per-entity carts app (carts/views.py) keeps the same tables in its own
\* models; its handlers take no row lock and are modelled one request at a
\* time, each handler one step.
PeQtyPayloads == (0 - 1) .. MaxQty       \* int(request.data.get('qty')): any integer
ChargePayloads == {0, 5, 500}            \* shipping_total, tax_total of the payload

PeRespond(op, c, cart, code, detail) ==
    /\ started < MaxOps
    /\ started' = started + 1
    /\ last' = [op |-> op, customer |-> c, cart |-> cart, result |-> code,
                detail |-> detail]
    /\ UNCHANGED <<price, sale_price, promotions, rules, lock, pc, req>>

\* Cart.objects.get_or_create(customer=customer, status='open')
PeCartsAfterGetOrCreate(c) ==
    IF OpenCarts(c) = {} THEN Append(carts, [customer |-> c, status |-> "open"])
    ELSE carts

PeOpenCart(c, cs) ==
    Min({i \in DOMAIN cs : cs[i].customer = c /\ cs[i].status = "open"})

\* variant.sale_price if variant.sale_price is not None else variant.price
PePriceAtAdd(v) == IF sale_price[v] # <<>> THEN sale_price[v][1] ELSE price[v]

\* GET carts/me/
PeMe ==
    \E c \in Customers :
        /\ carts' = PeCartsAfterGetOrCreate(c)
        /\ PeRespond("pe_me", c, PeOpenCart(c, carts'), 200, "cart")
        /\ UNCHANGED <<cartItems, nextItemId, stock, orders, orderItems, movements>>

\* POST carts/me/items/: get_or_create the item, add qty to an existing one
PeAddItem ==
    \E c \in Customers, v \in Variants, q \in PeQtyPayloads :
        /\ carts' = PeCartsAfterGetOrCreate(c)
        /\ LET cart == PeOpenCart(c, carts')
               existing == ExistingItems(cart, v)
           IN  /\ IF existing = {}
                  THEN /\ cartItems' = cartItems \union
                            {[id |-> nextItemId, cart |-> cart, variant |-> v, qty |-> q,
                              price_at_add |-> Quantize2(PePriceAtAdd(v))]}
                       /\ nextItemId' = nextItemId + 1
                  ELSE LET e == CHOOSE it \in existing : TRUE
                       IN  /\ cartItems' = (cartItems \ {e}) \union
                                   {[e EXCEPT !.qty = e.qty + q]}
                           /\ UNCHANGED nextItemId
               /\ PeRespond("pe_add_item", c, cart, 201,
                            IF existing = {} THEN "created" ELSE "merged")
        /\ UNCHANGED <<stock, orders, orderItems, movements>>

\* PATCH carts/me/items/<item_id>/: qty <= 0 deletes the item
PeUpdateItem ==
    \E c \in Customers, i \in 1 .. (nextItemId - 1), q \in PeQtyPayloads :
        /\ IF OpenCarts(c) = {}
           THEN /\ PeRespond("pe_update_item", c, 0, 404, "cart")
                /\ UNCHANGED cartItems
           ELSE LET cart == PeOpenCart(c, carts)
                    found == {it \in cartItems : it.id = i /\ it.cart = cart}
                IN  IF found = {}
                    THEN /\ PeRespond("pe_update_item", c, cart, 404, "item")
                         /\ UNCHANGED cartItems
                    ELSE LET it == CHOOSE x \in found : TRUE
                         IN  IF q <= 0
                             THEN /\ cartItems' = cartItems \ {it}
                                  /\ PeRespond("pe_update_item", c, cart, 200, "deleted")
                             ELSE /\ cartItems' = (cartItems \ {it}) \union
                                         {[it EXCEPT !.qty = q]}
                                  /\ PeRespond("pe_update_item", c, cart, 200, "updated")
        /\ UNCHANGED <<carts, nextItemId, stock, orders, orderItems, movements>>

\* DELETE carts/me/items/<item_id>/
PeDeleteItem ==
    \E c \in Customers, i \in 1 .. (nextItemId - 1) :
        /\ IF OpenCarts(c) = {}
           THEN /\ PeRespond("pe_delete_item", c, 0, 404, "cart")
                /\ UNCHANGED cartItems
           ELSE LET cart == PeOpenCart(c, carts)
                    found == {it \in cartItems : it.id = i /\ it.cart = cart}
                IN  IF found = {}
                    THEN /\ PeRespond("pe_delete_item", c, cart, 404, "item")
                         /\ UNCHANGED cartItems
                    ELSE /\ cartItems' = cartItems \ found
                         /\ PeRespond("pe_delete_item", c, cart, 204, "deleted")
        /\ UNCHANGED <<carts, nextItemId, stock, orders, orderItems, movements>>

\* Order.objects.create(...): shipping_total and tax_total are the payload's
\* Decimal values, grand_total their exact sum with the subtotal
PeNewOrder(c, cart, items, shipping, tax) ==
    LET subtotal == SumLineTotals(items)
        discount_total == 0
    IN  StoredOrder(
          [customer |-> c, status |-> "pending", subtotal |-> subtotal,
           discount_total |-> discount_total, shipping_total |-> shipping,
           tax_total |-> tax,
           grand_total |-> subtotal - discount_total + shipping + tax,
           cart |-> cart])

\* it.variant.stock = max(0, it.variant.stock - it.qty)
PeStockAfterSale(items) ==
    [v \in Variants |->
        IF QtyOfVariant(items, v) = 0 THEN stock[v]
        ELSE IF stock[v] - QtyOfVariant(items, v) < 0 THEN 0
        ELSE stock[v] - QtyOfVariant(items, v)]

\* POST carts/me/checkout/ {shipping_total, tax_total, ...}, one transaction
PeCheckout ==
    \E c \in Customers, shipping \in ChargePayloads, tax \in ChargePayloads :
        IF OpenCarts(c) = {}
        THEN /\ PeRespond("pe_checkout", c, 0, 404, "cart")
             /\ UNCHANGED db
        ELSE LET cart == PeOpenCart(c, carts)
                 items == ItemsOf(cart)
                 oid == Len(orders) + 1
             IN  IF items = {}
                 THEN /\ PeRespond("pe_checkout", c, cart, 400, "empty")
                      /\ UNCHANGED db
                 ELSE /\ orders' = Append(orders, PeNewOrder(c, cart, items, shipping, tax))
                      /\ orderItems' = orderItems \o NewOrderItems(oid, items)
                      /\ stock' = PeStockAfterSale(items)
                      /\ movements' = movements \o SaleMovements(oid, items)
                      /\ carts' = ConvertedCarts(cart)
                      /\ PeRespond("pe_checkout", c, cart, 201, "order")
                      /\ UNCHANGED <<cartItems, nextItemId>>

NextCarts == PeMe \/ PeAddItem \/ PeUpdateItem \/ PeDeleteItem \/ PeCheckout

SpecCarts == Init /\ [][NextCarts]_vars

\* ------------------------------------------------------------------ properties
\* request r sends its response in this step
Responds(r) == pc[r] # "idle" /\ pc'[r] = "idle"

\* request r ends its checkout transaction in this step
CommitsCheckout(r) == pc[r] = "co_txn" /\ Responds(r)

NewRows(old, new) == SubSeq(new, Len(old) + 1, Len(new))

RECURSIVE SumChange(_)
SumChange(ms) == IF ms = <<>> THEN 0 ELSE Head(ms).change + SumChange(Tail(ms))

OrdersOfCart(cart) == {i \in DOMAIN orders : orders[i].cart = cart}
ItemsOfOrder(o) == {j \in DOMAIN orderItems : orderItems[j].order = o}
SoldQty(v) == SumQty({[id |-> j, qty |-> orderItems[j].qty] :
                        j \in {k \in DOMAIN orderItems : orderItems[k].variant = v}})

\* the complete effect of the checkout of request r, on the cart items it read
CheckoutUnit(r) ==
    LET cart == req[r].cart
        oid == Len(orders) + 1
        rows == NewRows(orderItems, orderItems')
    IN  /\ Len(orders') = oid
        /\ SubSeq(orders', 1, Len(orders)) = orders
        /\ orders'[oid].status = "pending"
        /\ orders'[oid].customer = carts[cart].customer
        /\ SubSeq(orderItems', 1, Len(orderItems)) = orderItems
        /\ Len(rows) = Cardinality(req[r].items)
        /\ \A it \in req[r].items :
              Cardinality({j \in DOMAIN rows : rows[j].order = oid
                              /\ rows[j].variant = it.variant /\ rows[j].qty = it.qty}) = 1
        /\ carts'[cart].status = "converted"
        /\ \A c \in DOMAIN carts : c # cart => carts'[c] = carts[c]
        /\ Len(carts') = Len(carts)

\* C1: a checkout of an open cart that has at least one item, every item with
\* qty <= its variant's stock, commits in one step that creates exactly one
\* pending Order for the cart's customer, one OrderItem per cart item (the
\* items the transaction read) and converts the cart; and no step shows only
\* some of these writes: orders, order items and the conversion of a cart
\* change only together, in such a step.
C1_CheckoutIsAtomic ==
    [][ /\ \A r \in Requests :
              ( /\ CommitsCheckout(r)
                /\ carts[req[r].cart].status = "open"
                /\ req[r].items # {}
                /\ \A it \in req[r].items : it.qty <= stock[it.variant] )
              => (CheckoutUnit(r) /\ last'.result = 201)
        /\ ( \/ orders' # orders
             \/ orderItems' # orderItems
             \/ \E c \in DOMAIN carts : carts'[c].status # carts[c].status )
           => \E r \in Requests : CommitsCheckout(r) /\ CheckoutUnit(r)
      ]_vars

C1_Witness ==
    /\ last.op = "checkout" /\ last.result = 201
    /\ carts[last.cart].status = "converted"
    /\ \E o \in OrdersOfCart(last.cart) :
          /\ orders[o].status = "pending"
          /\ orders[o].customer = last.customer
          /\ Cardinality(ItemsOfOrder(o)) = Cardinality(ItemsOf(last.cart))
          /\ ItemsOfOrder(o) # {}

\* C2: under every interleaving at most one Order is created for a cart, and
\* each variant of the cart is sold (its stock decremented) at most once for it
C2_OneOrderPerCart ==
    \A c \in DOMAIN carts :
        /\ Cardinality(OrdersOfCart(c)) <= 1
        /\ \A v \in Variants :
              Cardinality({m \in DOMAIN movements :
                              /\ movements[m].variant = v
                              /\ movements[m].reason = "sale"
                              /\ movements[m].order \in OrdersOfCart(c)}) <= 1

\* C3: stock is never negative, the quantity of a variant over all order items
\* never exceeds the stock it had before the checkouts, and a checkout that
\* finds stock < qty under the variant locks answers 400 without selling
C3_NoOversell ==
    /\ [](\A v \in Variants : stock[v] >= 0 /\ SoldQty(v) <= MaxStock)
    /\ [][ \A r \in Requests :
              (CommitsCheckout(r) /\ \E it \in req[r].items : stock[it.variant] < it.qty)
              => ( /\ last'.result = 400 /\ last'.detail = "stock"
                   /\ UNCHANGED <<stock, orders, orderItems>> )
         ]_vars

\* the loser of a race between two customers: its cart asks for more than the
\* other customer's order left
C3_Witness ==
    /\ last.op = "checkout" /\ last.result = 400 /\ last.detail = "stock"
    /\ \E o \in DOMAIN orders : orders[o].customer # last.customer
    /\ \E it \in ItemsOf(last.cart) :
          /\ it.qty > stock[it.variant]
          /\ it.qty <= MaxStock
          /\ SoldQty(it.variant) > 0

\* C4: a checkout that finds an item with qty > stock under lock answers 400
\* and leaves the store as it was: no order, order item or movement, no stock
\* change, the cart open with the same items
C4_StockErrorChangesNothing ==
    [][ \A r \in Requests :
           (CommitsCheckout(r) /\ \E it \in req[r].items : it.qty > stock[it.variant])
           => ( /\ last'.result = 400 /\ last'.detail = "stock"
                /\ UNCHANGED <<carts, cartItems, stock, orders, orderItems, movements>> )
      ]_vars

\* the failed cart also holds an item whose variant had enough stock
C4_Witness ==
    /\ last.op = "checkout" /\ last.result = 400 /\ last.detail = "stock"
    /\ carts[last.cart].status = "open"
    /\ OrdersOfCart(last.cart) = {}
    /\ \E a, b \in ItemsOf(last.cart) :
          /\ a.qty > stock[a.variant]
          /\ b.qty <= stock[b.variant]
          /\ stock[b.variant] = MaxStock

\* C5: at most one open cart per customer in every reachable state
C5_OneOpenCartPerCustomer ==
    \A c \in Customers : Cardinality(OpenCarts(c)) <= 1

\* C6: a successful checkout records movements whose changes sum to minus the
\* sum of the qty of the cart items (the items the transaction read), each
\* with reason 'sale', and leaves every variant of the cart with its stock
\* minus the qty of its cart item, and every other variant's stock as it was
C6_Reconciliation ==
    [][ \A r \in Requests :
           (CommitsCheckout(r) /\ last'.result = 201)
           => LET ms == NewRows(movements, movements')
              IN  /\ SubSeq(movements', 1, Len(movements)) = movements
                  /\ SumChange(ms) = 0 - SumQty(req[r].items)
                  /\ \A i \in DOMAIN ms : ms[i].reason = "sale"
                  /\ \A it \in req[r].items :
                        /\ stock'[it.variant] = stock[it.variant] - it.qty
                        /\ \E i \in DOMAIN ms :
                              ms[i].variant = it.variant /\ ms[i].change = 0 - it.qty
                  /\ \A v \in Variants \ VariantsOf(req[r].items) : stock'[v] = stock[v]
      ]_vars

C6_Witness ==
    /\ last.op = "checkout" /\ last.result = 201
    /\ \E o \in OrdersOfCart(last.cart) :
          /\ Cardinality(ItemsOfOrder(o)) = 2
          /\ \A j \in ItemsOfOrder(o) :
                \E m \in DOMAIN movements :
                    /\ movements[m].order = o
                    /\ movements[m].variant = orderItems[j].variant
                    /\ movements[m].change = 0 - orderItems[j].qty
                    /\ stock[orderItems[j].variant] = MaxStock - orderItems[j].qty

\* C7: a checkout called right after the checkout that converted the
\* customer's cart, with no request in between or beside it, creates no order,
\* order item or movement, changes no stock, and fails
C7_SecondCheckoutFails ==
    [][ \A r \in Requests :
           ( /\ pc[r] # "idle" /\ req[r].op = "checkout"
             /\ last.op = "checkout" /\ last.result = 201
             /\ last.customer = req[r].customer )
           => ( /\ UNCHANGED <<orders, orderItems, movements, stock>>
                /\ Responds(r) => last'.result = 400 )
      ]_vars

C7_Witness ==
    /\ last.op = "checkout" /\ last.result = 400 /\ last.detail = "empty"
    /\ \E c \in DOMAIN carts :
          /\ carts[c].customer = last.customer
          /\ carts[c].status = "converted"
          /\ Cardinality(OrdersOfCart(c)) = 1
    /\ Len(orders) = 1
    /\ started = 2

\* C9: no Order without an OrderItem exists in any reachable state (checkout
\* of a cart with zero items is rejected and creates no Order)
C9_NoEmptyOrder ==
    \A o \in DOMAIN orders : ItemsOfOrder(o) # {}

\* C10: there is never more than one CartItem for a (cart, variant) pair, and
\* add_item of qty2 to a cart that holds qty1 of the variant, with
\* qty1 + qty2 <= stock, leaves exactly that one item, with qty1 + qty2
C10_AddMerges ==
    /\ [](\A c \in DOMAIN carts, v \in Variants : Cardinality(ExistingItems(c, v)) <= 1)
    /\ [][ \A r \in Requests :
              ( /\ pc[r] = "add" /\ Responds(r)
                /\ ExistingItems(req[r].cart, req[r].variant) # {}
                /\ \A e \in ExistingItems(req[r].cart, req[r].variant) :
                      e.qty + req[r].qty <= stock[req[r].variant] )
              => \E e \in ExistingItems(req[r].cart, req[r].variant) :
                    /\ {it \in cartItems' : it.cart = e.cart /\ it.variant = e.variant}
                          = {[e EXCEPT !.qty = e.qty + req[r].qty]}
                    /\ last'.result = 201
         ]_vars

C10_Witness ==
    /\ last.op = "add_item" /\ last.result = 201 /\ last.detail = "merged"
    /\ \E it \in ItemsOf(last.cart) : it.qty >= 2

\* C8: every Order created by checkout, in the consolidated app and in the
\* carts app, has grand_total = subtotal - discount_total + shipping_total +
\* tax_total
C8_GrandTotalIdentity ==
    \A o \in DOMAIN orders :
        orders[o].grand_total =
            orders[o].subtotal - orders[o].discount_total
              + orders[o].shipping_total + orders[o].tax_total

\* C11: when an add_item commits with 201 while another add_item of the same
\* customer for the same variant is in flight (it has its cart and waits for
\* its transaction), no increment is lost and no row is duplicated: the
\* (cart, variant) pair holds exactly one CartItem, its qty is the previous
\* qty plus the requested one, and it is the row the other request will add
\* its own qty to
C11_NoLostIncrement ==
    [][ \A r \in Requests, o \in Requests :
           ( /\ r # o
             /\ pc[r] = "add" /\ Responds(r) /\ last'.result = 201
             /\ pc[o] = "add" /\ req[o].op = "add_item"
             /\ req[o].customer = req[r].customer
             /\ req[o].variant = req[r].variant )
           => LET before == ExistingItems(req[r].cart, req[r].variant)
                  after == {it \in cartItems' : it.cart = req[r].cart
                                                  /\ it.variant = req[r].variant}
                  seen == {it \in cartItems' : it.cart = req[o].cart
                                                 /\ it.variant = req[o].variant}
              IN  /\ Cardinality(after) = 1
                  /\ SumQty(after) = SumQty(before) + req[r].qty
                  /\ seen = after
      ]_vars

\* C12: the transaction of add_item answers 201 exactly when the qty the cart
\* already holds of the variant plus the requested qty is at most the
\* variant's stock (equal to the stock succeeds, stock + 1 fails); a failure
\* is a 400 stock error that leaves the stock and every CartItem (qty and
\* price_at_add) as they were and creates no CartItem; add_item never changes
\* the stock
C12_AddItemStockBoundary ==
    [][ \A r \in Requests :
           (pc[r] = "add" /\ Responds(r))
           => LET v == req[r].variant
                  total == SumQty(ExistingItems(req[r].cart, v)) + req[r].qty
              IN  /\ (last'.result = 201) <=> (total <= stock[v])
                  /\ (total = stock[v]) => last'.result = 201
                  /\ (total >= stock[v] + 1)
                        => ( /\ last'.result = 400 /\ last'.detail = "stock"
                             /\ cartItems' = cartItems )
                  /\ stock' = stock
      ]_vars

\* an add that asked for one unit more than the stock left: the item keeps the
\* qty it had, which is all the stock
C12_Witness ==
    /\ last.op = "add_item" /\ last.result = 400 /\ last.detail = "stock"
    /\ \E it \in ItemsOf(last.cart) :
          /\ it.qty = stock[it.variant]
          /\ it.qty = MaxStock
          /\ it.price_at_add = price[it.variant]

\* ------------------------------------------------------------------ catalog prices
\* PUT/PATCH variants/<id>/ by an admin: VariantSerializer writes price and
\* sale_price (two decimal places).  One request at a time, the handler one
\* step.
PricePayloads == {1000, 1500}
SalePricePayloads == {<<>>, <<0>>, <<500>>}

VariantUpdate ==
    \E v \in Variants, p \in PricePayloads, sp \in SalePricePayloads :
        /\ Quiet
        /\ started < MaxOps
        /\ started' = started + 1
        /\ price' = [price EXCEPT ![v] = p]
        /\ sale_price' = [sale_price EXCEPT ![v] = sp]
        /\ last' = [NoResponse EXCEPT !.op = "variant_update", !.result = 200,
                                      !.detail = "variant"]
        /\ UNCHANGED <<carts, cartItems, nextItemId, stock, promotions, rules,
                       orders, orderItems, movements, lock, pc, req>>

NextPrice == NextSeq \/ VariantUpdate

SpecPrice == Init /\ [][NextPrice]_vars

\* C13: after every successful add_item, whether it created the item or
\* merged into it, the item's price_at_add is the variant's effective price at
\* that moment; and a change of the variant's price or sale_price changes no
\* CartItem
C13_PriceAtAddIsLastAdd ==
    [][ /\ \A r \in Requests :
              (pc[r] = "add" /\ Responds(r) /\ last'.result = 201)
              => \A it \in cartItems' :
                    (it.cart = req[r].cart /\ it.variant = req[r].variant)
                    => it.price_at_add = effective_price(req[r].variant)
        /\ (price' # price \/ sale_price' # sale_price) => cartItems' = cartItems
      ]_vars

RECURSIVE SumOrderLines(_)
SumOrderLines(S) ==
    IF S = {} THEN 0
    ELSE LET j == CHOOSE x \in S : TRUE
         IN  orderItems[j].line_total + SumOrderLines(S \ {j})

\* C14: every order item has line_total = qty * unit_price and every order's
\* subtotal is the sum of its items' line_total; a successful checkout writes
\* one order item per cart item, with the cart item's qty and its price_at_add
\* as unit_price, whatever the variant's price is then; and no step (a later
\* price change included) alters an order or order item already written
C14_OrderSnapshot ==
    /\ [](\A o \in DOMAIN orders :
             /\ \A j \in ItemsOfOrder(o) :
                   orderItems[j].line_total = orderItems[j].qty * orderItems[j].unit_price
             /\ orders[o].subtotal = SumOrderLines(ItemsOfOrder(o)))
    /\ [][ /\ \A r \in Requests :
                 (CommitsCheckout(r) /\ last'.result = 201)
                 => LET rows == NewRows(orderItems, orderItems')
                    IN  /\ Len(rows) = Cardinality(req[r].items)
                        /\ \A it \in req[r].items :
                              \E j \in DOMAIN rows :
                                  /\ rows[j].variant = it.variant
                                  /\ rows[j].qty = it.qty
                                  /\ rows[j].unit_price = it.price_at_add
           /\ SubSeq(orders', 1, Len(orders)) = orders
           /\ SubSeq(orderItems', 1, Len(orderItems)) = orderItems
         ]_vars

\* an order made after the variant's price changed: it carries the snapshot
C14_Witness ==
    /\ last.op = "checkout" /\ last.result = 201
    /\ \E o \in OrdersOfCart(last.cart) :
          /\ ItemsOfOrder(o) # {}
          /\ \A j \in ItemsOfOrder(o) :
                /\ orderItems[j].unit_price # effective_price(orderItems[j].variant)
                /\ orderItems[j].unit_price = 1000 * orderItems[j].variant
          /\ orders[o].subtotal = SumOrderLines(ItemsOfOrder(o))

\* ------------------------------------------------------------------ inventory endpoint
\* POST inventory/movements/ {variant, change, reason} by an admin:
\* CreateModelMixin.create validates the payload, which loads the Variant row
\* (PrimaryKeyRelatedField), then perform_create saves the movement and writes
\* the stock computed from the row loaded at validation.  No transaction and
\* no select_for_update: three statements, each committed on its own.
ChangePayloads == {0 - 1, 1}

InvCreateRequest(r) ==
    \E v \in Variants, d \in ChangePayloads :
        /\ Free(r)
        /\ \A i \in DOMAIN Slots : Slots[i] = r => \A j \in 1 .. (i - 1) : ~Free(Slots[j])
        /\ started < MaxOps
        /\ started' = started + 1
        /\ pc' = [pc EXCEPT ![r] = "inv_valid"]
        /\ req' = [req EXCEPT ![r] =
                      [change |-> d, stock_read |-> 0] @@
                      [IdleReq EXCEPT !.op = "inv_create", !.variant = v]]
        /\ UNCHANGED <<db, lock, last>>

\* serializer.is_valid(): the variant instance, with the stock it has now
InvValidate(r) ==
    /\ pc[r] = "inv_valid"
    /\ req' = [req EXCEPT ![r].stock_read = stock[req[r].variant]]
    /\ pc' = [pc EXCEPT ![r] = "inv_save"]
    /\ UNCHANGED <<db, lock, last, started>>

\* movement = serializer.save(): the INSERT takes a key-share lock on the
\* variant row it references, so it waits for a checkout that holds the row
InvSave(r) ==
    /\ pc[r] = "inv_save"
    /\ lock[req[r].variant] = NoReq
    /\ movements' = Append(movements,
                       [variant |-> req[r].variant, change |-> req[r].change,
                        reason |-> "adjustment", order |-> 0])
    /\ pc' = [pc EXCEPT ![r] = "inv_stock"]
    /\ UNCHANGED <<carts, cartItems, nextItemId, stock, price, sale_price,
                   promotions, rules, orders, orderItems, lock, req, last, started>>

\* variant.stock += movement.change; variant.save(update_fields=['stock']):
\* the UPDATE waits for the row lock, then writes the value computed from the
\* stock read at validation
InvStock(r) ==
    /\ pc[r] = "inv_stock"
    /\ lock[req[r].variant] = NoReq
    /\ stock' = [stock EXCEPT ![req[r].variant] = req[r].stock_read + req[r].change]
    /\ Respond(r, 0, 201, "movement")
    /\ UNCHANGED <<carts, cartItems, nextItemId, price, sale_price, promotions,
                   rules, orders, orderItems, movements, lock, started>>

InvStep(r) == InvValidate(r) \/ InvSave(r) \/ InvStock(r)

NextInv == \E r \in Requests : Arrive(r) \/ Step(r) \/ InvCreateRequest(r) \/ InvStep(r)

SpecInv == Init /\ [][NextInv]_vars

\* the sum of change over the movements of variant v
LedgerSum(v) == SumChange(SelectSeq(movements, LAMBDA m : m.variant = v))

\* C15: whenever no request is in progress (so no movement creation is halfway
\* through), every variant's stock is its initial stock plus the sum of change
\* over its movements, under any interleaving of movement creations and
\* checkouts
C15_StockMatchesLedger ==
    Quiet => \A v \in Variants : stock[v] = MaxStock + LedgerSum(v)

\* ------------------------------------------------------------------ generic endpoints
\* CartViewSet, OrderViewSet and InventoryMovementViewSet are ModelViewSets
\* registered with a DefaultRouter: besides the actions above they serve the
\* generic create / update / partial_update / destroy routes, with the
\* writable fields of their serializers.  One request at a time, each handler
\* one step.
CartStatuses == {"open", "converted", "abandoned"}
StatusPayloads == {<<>>, <<"paid">>, <<"cancelled">>}      \* absent or a Status choice
SubtotalPayloads == {<<>>, <<500>>}                        \* absent or an amount

GenericRespond(op, code) ==
    /\ Quiet
    /\ started < MaxOps
    /\ started' = started + 1
    /\ last' = [NoResponse EXCEPT !.op = op, !.result = code, !.detail = "generic"]
    /\ UNCHANGED <<lock, pc, req>>

\* POST carts/ {customer, status}: CartSerializer leaves both writable
CartCreate ==
    \E c \in Customers, st \in CartStatuses :
        /\ carts' = Append(carts, [customer |-> c, status |-> st])
        /\ GenericRespond("cart_create", 201)
        /\ UNCHANGED <<cartItems, nextItemId, stock, price, sale_price, promotions,
                       rules, orders, orderItems, movements>>

\* PUT/PATCH carts/<id>/ {status} on a cart of get_queryset (the user's own
\* carts, every cart for staff)
CartUpdate ==
    \E cart \in DOMAIN carts, st \in CartStatuses :
        /\ carts' = [carts EXCEPT ![cart].status = st]
        /\ GenericRespond("cart_update", 200)
        /\ UNCHANGED <<cartItems, nextItemId, stock, price, sale_price, promotions,
                       rules, orders, orderItems, movements>>

\* PUT/PATCH orders/<id>/ by an admin: OrderSerializer keeps only id,
\* order_number, created_at and updated_at read-only
OrderUpdate ==
    \E o \in DOMAIN orders, st \in StatusPayloads, sub \in SubtotalPayloads :
        /\ orders' = [orders EXCEPT ![o] =
                         StoredOrder([@ EXCEPT
                             !.status = IF st = <<>> THEN @ ELSE st[1],
                             !.subtotal = IF sub = <<>> THEN @ ELSE sub[1]])]
        /\ GenericRespond("order_update", 200)
        /\ UNCHANGED <<carts, cartItems, nextItemId, stock, price, sale_price,
                       promotions, rules, orderItems, movements>>

\* PUT/PATCH inventory/movements/<id>/ {change} by an admin: the default
\* perform_update, which saves the movement and touches no stock
MovementUpdate ==
    \E m \in DOMAIN movements, d \in ChangePayloads :
        /\ movements' = [movements EXCEPT ![m].change = d]
        /\ GenericRespond("movement_update", 200)
        /\ UNCHANGED <<carts, cartItems, nextItemId, stock, price, sale_price,
                       promotions, rules, orders, orderItems>>

RemoveAt(seq, i) == SubSeq(seq, 1, i - 1) \o SubSeq(seq, i + 1, Len(seq))

\* DELETE inventory/movements/<id>/ by an admin
MovementDestroy ==
    \E m \in DOMAIN movements :
        /\ movements' = RemoveAt(movements, m)
        /\ GenericRespond("movement_destroy", 204)
        /\ UNCHANGED <<carts, cartItems, nextItemId, stock, price, sale_price,
                       promotions, rules, orders, orderItems>>

NextAdmin ==
    \/ NextSeq
    \/ \E r \in Requests : (Quiet /\ InvCreateRequest(r)) \/ InvStep(r)
    \/ CartCreate
    \/ CartUpdate
    \/ OrderUpdate
    \/ MovementUpdate
    \/ MovementDestroy

SpecAdmin == Init /\ [][NextAdmin]_vars

\* C16: a cart goes from open to converted only in the step that commits the
\* checkout of that cart, and a converted cart does not become open again
C16_CartConvertsOnce ==
    [][ \A c \in DOMAIN carts :
           /\ (carts[c].status = "open" /\ carts'[c].status = "converted")
                 => \E r \in Requests : CommitsCheckout(r) /\ req[r].cart = c
           /\ carts[c].status = "converted" => carts'[c].status # "open"
      ]_vars

\* C17: no step changes a field of an existing Order other than its status,
\* nor any of the order's items
C17_OrderFrozenButStatus ==
    [][ /\ \A o \in DOMAIN orders :
              /\ o \in DOMAIN orders'
              /\ [orders'[o] EXCEPT !.status = orders[o].status] = orders[o]
        /\ SubSeq(orderItems', 1, Len(orderItems)) = orderItems
      ]_vars

\* C18: the movement log only grows: every step keeps each existing movement
\* with its variant, change and reason
C18_MovementsAppendOnly ==
    [][ /\ Len(movements') >= Len(movements)
        /\ \A m \in DOMAIN movements :
              /\ movements'[m].variant = movements[m].variant
              /\ movements'[m].change = movements[m].change
              /\ movements'[m].reason = movements[m].reason
      ]_vars

\* ------------------------------------------------------------------ promotions
\* Pricing rules and promotions are written by admins through
\* PricingRuleViewSet and PromotionViewSet; a preview reads them.  One request
\* at a time, each handler one step.  rule.value is a DecimalField in mills:
\* 10000 is 10.00 (ten percent, or an amount of 10.00).
RuleIds == {"rule1"}
PromotionCodes == {"SAVE10"}
RuleTypes == {"percentage", "fixed"}
RuleValuePayloads == {500, 10000}
StartsAtPayloads == {<<>>, <<2>>}            \* NULL or a time
EndsAtPayloads == {<<>>, <<1>>}
UsageLimitPayloads == {<<>>, <<0>>, <<1>>}   \* NULL or an integer
UsedCountPayloads == {0, 1}
Times == {1, 2}                              \* timezone.now() of a request
CodePayloads == {<<>>, <<"SAVE10">>, <<"save10">>, <<"NOPE">>}   \* <<>>: no code
ItemPayloads == {<<>>, <<[variant |-> 1, qty |-> 1]>>}

\* code__iexact compares without regard to case
Fold(code) == IF code = "save10" THEN "SAVE10" ELSE code
Lookup(code) == {k \in DOMAIN promotions : Fold(k) = Fold(code)}

SaveRespond(op) ==
    /\ Quiet
    /\ last' = [NoResponse EXCEPT !.op = op, !.result = 200, !.detail = "saved"]
    /\ UNCHANGED <<carts, cartItems, nextItemId, stock, price, sale_price, orders,
                   orderItems, movements, lock, pc, req, started>>

\* POST or PUT pricing-rules/: every field of the rule but its id is writable
RuleSave ==
    \E id \in RuleIds, t \in RuleTypes, val \in RuleValuePayloads, a \in BOOLEAN,
       s \in StartsAtPayloads, e \in EndsAtPayloads :
        /\ rules' = (id :> [type |-> t, value |-> val, active |-> a,
                            starts_at |-> s, ends_at |-> e]) @@ rules
        /\ SaveRespond("rule_save")
        /\ UNCHANGED promotions

\* POST or PUT promotions/ in the consolidated app: used_count is read-only
\* and starts at its default
PromotionSave ==
    \E code \in PromotionCodes, a \in BOOLEAN, lim \in UsageLimitPayloads,
       rule \in DOMAIN rules :
        /\ promotions' =
              (code :> [active |-> a, usage_limit |-> lim,
                        used_count |-> IF code \in DOMAIN promotions
                                       THEN promotions[code].used_count ELSE 0,
                        rule |-> rule]) @@ promotions
        /\ SaveRespond("promotion_save")
        /\ UNCHANGED rules

\* POST or PUT promotions/ in the promotions app: used_count is writable
PePromotionSave ==
    \E code \in PromotionCodes, a \in BOOLEAN, lim \in UsageLimitPayloads,
       used \in UsedCountPayloads, rule \in DOMAIN rules :
        /\ promotions' =
              (code :> [active |-> a, usage_limit |-> lim, used_count |-> used,
                        rule |-> rule]) @@ promotions
        /\ SaveRespond("pe_promotion_save")
        /\ UNCHANGED rules

\* Promotion.is_available (consolidated app)
is_available(p) ==
    IF ~p.active THEN FALSE
    ELSE IF (p.usage_limit # <<>> /\ p.usage_limit[1] # 0)
            /\ p.used_count >= p.usage_limit[1] THEN FALSE
    ELSE TRUE

\* PricingRule.is_active (pricing_rules app)
is_active(rule, now) ==
    IF ~rule.active THEN FALSE
    ELSE IF rule.starts_at # <<>> /\ now < rule.starts_at[1] THEN FALSE
    ELSE IF rule.ends_at # <<>> /\ now > rule.ends_at[1] THEN FALSE
    ELSE TRUE

\* subtotal * (rule.value / 100), in mills: exact for the subtotals these
\* specifications reach (whole multiples of 1.00) and the values of
\* RuleValuePayloads
PercentOf(subtotal, value) == (subtotal * value) \div 100000

\* mutant: a preview that applies a promotion counts as a use of it
PreviewCountsUse(op, c, cart, code, now, result, detail, subtotal, discount) ==
    /\ Quiet
    /\ last' = [op |-> op, customer |-> c, cart |-> cart, result |-> result,
                detail |-> detail, code |-> code, now |-> now,
                subtotal |-> subtotal, discount |-> discount]
    /\ promotions' =
          [k \in DOMAIN promotions |->
              IF result = 200 /\ code # <<>> /\ Fold(k) = Fold(code[1])
              THEN [promotions[k] EXCEPT !.used_count = @ + 1]
              ELSE promotions[k]]
    /\ UNCHANGED <<cartItems, nextItemId, stock, price, sale_price,
                   rules, orders, orderItems, movements, lock, pc, req, started>>

\* the response of a preview
Preview(op, c, cart, code, now, result, detail, subtotal, discount) ==
    /\ Quiet
    /\ last' = [op |-> op, customer |-> c, cart |-> cart, result |-> result,
                detail |-> detail, code |-> code, now |-> now,
                subtotal |-> subtotal, discount |-> discount]
    /\ UNCHANGED <<cartItems, nextItemId, stock, price, sale_price, promotions,
                   rules, orders, orderItems, movements, lock, pc, req, started>>

\* POST carts/me/apply-promotion/ {code} in the consolidated app
ApplyPromotion ==
    \E c \in Customers, code \in CodePayloads, now \in Times :
        /\ carts' = IF OpenCarts(c) = {}
                    THEN Append(carts, [customer |-> c, status |-> "open"])
                    ELSE carts
        /\ LET cart == IF OpenCarts(c) = {} THEN Len(carts) + 1 ELSE FirstOpenCart(c)
               found == IF code = <<>> THEN {} ELSE Lookup(code[1])
           IN  IF code = <<>>
               THEN Preview("apply_promotion", c, cart, code, now, 400, "invalid", 0, 0)
               ELSE IF found = {}
               THEN Preview("apply_promotion", c, cart, code, now, 404, "promotion", 0, 0)
               ELSE LET promotion == promotions[CHOOSE k \in found : TRUE]
                        rule == rules[promotion.rule]
                        subtotal == SumLineTotals(ItemsOf(cart))
                        discount == IF rule.type = "percentage"
                                    THEN PercentOf(subtotal, rule.value)
                                    ELSE Min({rule.value, subtotal})
                    IN  IF ~is_available(promotion)
                        THEN Preview("apply_promotion", c, cart, code, now, 400,
                                     "unavailable", 0, 0)
                        ELSE Preview("apply_promotion", c, cart, code, now, 200,
                                     "applied", subtotal, discount)

\* the promotion both previews of the per-entity apps resolve:
\* Promotion.objects.filter(code__iexact=code, active=True).first(), refused
\* unless promo.rule.is_active()
PeResolve(code, now) ==
    LET found == IF code = <<>> THEN {}
                 ELSE {k \in Lookup(code[1]) : promotions[k].active}
    IN  IF found = {} THEN <<>>
        ELSE LET k == CHOOSE x \in found : TRUE
             IN  IF is_active(rules[promotions[k].rule], now) THEN <<k>> ELSE <<>>

PeDiscount(rule, subtotal) ==
    IF rule.type = "fixed" THEN Min({rule.value, subtotal})
    ELSE Quantize2(PercentOf(subtotal, rule.value))

\* POST promotions/apply/ {code, items} in the promotions app
PePromotionsApply ==
    \E code \in CodePayloads, items \in ItemPayloads, now \in Times :
        /\ LET promo == PeResolve(code, now)
               subtotal == IF items = <<>> THEN 0
                           ELSE PePriceAtAdd(items[1].variant) * items[1].qty
           IN  IF promo = <<>>
               THEN Preview("pe_promotions_apply", "alice", 0, code, now, 400,
                            "promotion", 0, 0)
               ELSE Preview("pe_promotions_apply", "alice", 0, code, now, 200,
                            "applied", subtotal,
                            PeDiscount(rules[promotions[promo[1]].rule], subtotal))
        /\ UNCHANGED carts

\* POST carts/me/apply-promotion/ {code} in the carts app.  Its last statement
\* builds the response with PromotionSerializer, a name carts/views.py never
\* imports: the handler raises NameError where it would answer 200.
PeApplyPromotion ==
    \E c \in Customers, code \in CodePayloads, now \in Times :
        /\ IF OpenCarts(c) = {}
           THEN Preview("pe_apply_promotion", c, 0, code, now, 404, "cart", 0, 0)
           ELSE IF PeResolve(code, now) = <<>>
           THEN Preview("pe_apply_promotion", c, PeOpenCart(c, carts), code, now, 400,
                        "promotion", 0, 0)
           ELSE Preview("pe_apply_promotion", c, PeOpenCart(c, carts), code, now, 500,
                        "NameError", 0, 0)
        /\ UNCHANGED carts

NextPromo == RuleSave \/ PromotionSave \/ ApplyPromotion

SpecPromo == Init /\ [][NextPromo]_vars

NextPromoPe == RuleSave \/ PePromotionSave \/ PePromotionsApply \/ PeApplyPromotion

SpecPromoPe == Init /\ [][NextPromoPe]_vars

PreviewOps == {"apply_promotion", "pe_apply_promotion", "pe_promotions_apply"}

\* a preview answers in this step
Previews == last'.op \in PreviewOps /\ last' # last

\* the code names a promotion that can be redeemed at time now: it is active,
\* its rule is active and within its window, its uses are not exhausted
Redeemable(code, now) ==
    /\ code # <<>>
    /\ \E k \in Lookup(code[1]) :
          /\ promotions[k].active
          /\ is_active(rules[promotions[k].rule], now)
          /\ ~( /\ promotions[k].usage_limit # <<>>
                /\ promotions[k].used_count >= promotions[k].usage_limit[1] )

\* C19: a preview given no code, an unknown code or the code of a promotion
\* that is not redeemable does not fail: it answers 200 with discount 0
C19_PreviewDegrades ==
    [][ (Previews /\ ~Redeemable(last'.code, last'.now))
        => (last'.result = 200 /\ last'.discount = 0)
      ]_vars

\* C20: no preview of a cart answers with a non-zero discount for a promotion
\* that is not redeemable at the time of the request
C20_NoDiscountUnlessRedeemable ==
    [][ ( /\ Previews
          /\ last'.op \in {"apply_promotion", "pe_apply_promotion"}
          /\ ~Redeemable(last'.code, last'.now) )
        => ~(last'.result = 200 /\ last'.discount # 0)
      ]_vars

\* ------------------------------------------------------------------ previews among cart requests
\* The store after an admin created one percentage rule and one promotion
\* on it; then the customers' me/ requests, one at a time, and previews.
SeededRules ==
    "rule1" :> [type |-> "percentage", value |-> 10000, active |-> TRUE,
                starts_at |-> <<>>, ends_at |-> <<>>]
SeededPromotions ==
    "SAVE10" :> [active |-> TRUE, usage_limit |-> <<1>>, used_count |-> 0,
                 rule |-> "rule1"]

NextPreview == NextSeq \/ ApplyPromotion

InitPreview ==
    /\ InitStore
    /\ promotions = SeededPromotions
    /\ rules = SeededRules

SpecPreview == InitPreview /\ [][NextPreview]_vars

\* no step changes a promotion's used_count
UsedCountKept ==
    \A k \in DOMAIN promotions :
        k \in DOMAIN promotions' /\ promotions'[k].used_count = promotions[k].used_count

AppliedRule(code) == rules[promotions[CHOOSE k \in Lookup(code[1]) : TRUE].rule]

\* x is amount rounded to two decimal places, by either rounding of a half
RoundedTo2(x, amount) ==
    /\ x % 10 = 0
    /\ x - amount <= 5
    /\ amount - x <= 5

\* C22: the discount a preview returns is, for a percentage rule,
\* subtotal * value / 100 rounded to two decimal places and, for a fixed rule,
\* min(value, subtotal), which leaves a total that is not negative
C22_DiscountMatchesReference ==
    [][ (Previews /\ last'.result = 200)
        => LET rule == AppliedRule(last'.code)
               subtotal == last'.subtotal
           IN  IF rule.type = "percentage"
               THEN RoundedTo2(last'.discount, PercentOf(subtotal, rule.value))
               ELSE /\ last'.discount = Min({rule.value, subtotal})
                    /\ subtotal - last'.discount >= 0
      ]_vars

\* sale_price when it is not null, 0.00 included, and price otherwise
ReferencePrice(v) == IF sale_price[v] # <<>> THEN sale_price[v][1] ELSE price[v]

\* C23: effective_price is sale_price whenever sale_price is not null (0.00
\* included) and price when it is null, and a cart item created by add_item
\* snapshots that price
C23_EffectivePriceIsSalePrice ==
    /\ [](\A v \in Variants : effective_price(v) = ReferencePrice(v))
    /\ [][\A it \in cartItems' \ cartItems :
              (\A old \in cartItems : old.id # it.id)
              => it.price_at_add = ReferencePrice(it.variant)]_vars

\* C24: is_available is true exactly when the promotion is active and its
\* usage limit is null or not yet reached, a usage limit of 0 included
C24_AvailableIffUnderLimit ==
    \A k \in DOMAIN promotions :
        LET p == promotions[k]
        IN  is_available(p)
            <=> (p.active /\ (p.usage_limit = <<>> \/ p.used_count < p.usage_limit[1]))

\* the carts app answers a checkout in this step
PeChecksOut == last'.op = "pe_checkout" /\ started' # started

\* C25: a carts-app checkout with an item whose qty exceeds its variant's
\* stock is answered 400 and writes no order, order item or movement and no
\* stock; a checkout that succeeds takes exactly each item's qty off the stock
C25_PeCheckoutChecksStock ==
    [][ (PeChecksOut /\ OpenCarts(last'.customer) # {})
        => LET items == ItemsOf(PeOpenCart(last'.customer, carts))
           IN  /\ (\E it \in items : it.qty > stock[it.variant])
                  => /\ last'.result = 400
                     /\ UNCHANGED <<orders, orderItems, movements, stock>>
               /\ Len(orders') > Len(orders)
                  => \A v \in Variants :
                        /\ stock'[v] = stock[v] - QtyOfVariant(items, v)
                        /\ SumChange(NewRows(movements, movements'))
                               = 0 - SumQty(items)
      ]_vars

\* ------------------------------------------------------------------ fair scheduling
\* what earlier add_item requests left when the two customers filled their
\* carts in opposite orders: alice took variant 2 first, bob variant 1 first
CrossedItems ==
    {[id |-> 1, cart |-> 1, variant |-> 2, qty |-> 1, price_at_add |-> 2000],
     [id |-> 2, cart |-> 1, variant |-> 1, qty |-> 1, price_at_add |-> 1000],
     [id |-> 3, cart |-> 2, variant |-> 1, qty |-> 1, price_at_add |-> 1000],
     [id |-> 4, cart |-> 2, variant |-> 2, qty |-> 1, price_at_add |-> 2000]}

InitCrossed ==
    /\ carts = SeededCarts
    /\ cartItems = CrossedItems
    /\ nextItemId = 5
    /\ stock = [v \in Variants |-> MaxStock]
    /\ price = [v \in Variants |-> 1000 * v]
    /\ sale_price = [v \in Variants |-> <<>>]
    /\ promotions = NoPromotions
    /\ rules = NoRules
    /\ orders = <<>>
    /\ orderItems = <<>>
    /\ movements = <<>>
    /\ lock = [v \in Variants |-> NoReq]
    /\ pc = [r \in Requests |-> "idle"]
    /\ req = [r \in Requests |-> IdleReq]
    /\ last = NoResponse
    /\ started = 0

\* the server runs every handler it has started: a request that can take its
\* next step, or that waits for a row lock which is released, goes on
SpecFair ==
    /\ InitCrossed
    /\ [][Next]_vars
    /\ \A r \in Requests : WF_vars(Step(r))

\* C26: a checkout takes its variant row locks in ascending sku order whatever
\* the order of the items in its cart, and every started checkout ends (it
\* commits or fails)
C26_CheckoutsNeverDeadlock ==
    /\ [][\A r \in Requests : \A v \in Variants :
              (lock[v] # r /\ lock'[v] = r /\ req[r].op = "checkout")
              => \A w \in HeldBy(r) : w < v]_vars
    /\ \A r \in Requests :
          (req[r].op = "checkout" /\ pc[r] # "idle") ~> (pc[r] = "idle")

\* two checkouts of carts that hold both variants in opposite item orders: one
\* holds the lock on variant 1, the other waits for it
C26_Witness ==
    \E r \in Requests, q \in Requests :
        /\ r # q
        /\ pc[r] = "co_lock" /\ pc[q] = "co_lock"
        /\ req[r].cart # req[q].cart
        /\ VariantsOf(req[r].items) = Variants
        /\ VariantsOf(req[q].items) = Variants
        /\ HeldBy(r) = {1}
        /\ HeldBy(q) = {}

\* C27: every cart item has qty >= 1, whatever integer qty the add_item,
\* update_item and delete requests carried
C27_QtyAtLeastOne == \A it \in cartItems : it.qty >= 1

\* C28: no cart item of a converted cart is created, changed or deleted
C28_ConvertedCartFrozen ==
    [][\A it \in (cartItems' \ cartItems) \union (cartItems \ cartItems') :
           carts[it.cart].status # "converted"]_vars

\* C29: when a checkout commits an order, the order's items match the items
\* the cart holds at that moment one to one (same variant, same qty), and the
\* stock taken and the sale movement of each variant are that qty
C29_OrderMatchesCartAtCommit ==
    [][\A r \in Requests :
          (CommitsCheckout(r) /\ Len(orders') > Len(orders))
          => LET items == ItemsOf(req[r].cart)
                 lines == NewRows(orderItems, orderItems')
                 sales == NewRows(movements, movements')
             IN  /\ Len(lines) = Cardinality(items)
                 /\ \A it \in items :
                       /\ Cardinality({j \in DOMAIN lines :
                              /\ lines[j].variant = it.variant
                              /\ lines[j].qty = it.qty}) = 1
                       /\ stock'[it.variant] = stock[it.variant] - it.qty
                       /\ \E j \in DOMAIN sales :
                              /\ sales[j].variant = it.variant
                              /\ sales[j].change = 0 - it.qty
      ]_vars

\* the customers whose request takes a step
Actors ==
    {req[r].customer : r \in {q \in Requests : pc[q] # "idle" /\ pc'[q] # pc[q]}}
        \union (IF started' # started THEN {last'.customer} ELSE {})

\* request r answers an update or a delete that names an item of a cart of
\* another customer
AnswersForeignItem(r) ==
    /\ pc[r] = "upd"
    /\ Responds(r)
    /\ \E it \in cartItems :
          it.id = req[r].item /\ carts[it.cart].customer # req[r].customer

====
